---- MODULE Spec2Model ----
(***************************************************************************)
(* Model of m8_hw.py: the address-book assistant bot.                      *)
(*                                                                         *)
(* Text is modelled as a sequence of one-character strings, so that the    *)
(* validators (isalpha, isdigit), strptime and strftime are computed on    *)
(* characters.  An input line is modelled by the token list that           *)
(* user_input.split() yields.  A date is a record [year, month, day] of    *)
(* the proleptic Gregorian calendar, as datetime.date.                     *)
(***************************************************************************)
EXTENDS Integers, Sequences, FiniteSets, TLC

VARIABLES pc, book, file, out, command, args, today, upcoming, sessions, steps

vars == <<pc, book, file, out, command, args, today, upcoming, sessions, steps>>

(***************************************************************************)
(* Bounds of the model.                                                    *)
(***************************************************************************)
\* longest phone list a Record is grown to
MaxPhones == 2
\* number of processes started one after the other
MaxSessions == 2
\* number of input lines read over all sessions
MaxSteps == 3
\* number of calendar years, from 2023 on, the clock is read in
NumYears == 2

(***************************************************************************)
(* Characters and strings.                                                 *)
(***************************************************************************)
DigitChars == <<"0", "1", "2", "3", "4", "5", "6", "7", "8", "9">>

LowerChars == <<"a", "b", "c", "d", "e", "f", "g", "h", "i", "j", "k", "l", "m",
                "n", "o", "p", "q", "r", "s", "t", "u", "v", "w", "x", "y", "z">>

UpperChars == <<"A", "B", "C", "D", "E", "F", "G", "H", "I", "J", "K", "L", "M",
                "N", "O", "P", "Q", "R", "S", "T", "U", "V", "W", "X", "Y", "Z">>

Range(s) == {s[i] : i \in 1..Len(s)}

\* str.isdigit: non-empty and every character a digit
isdigit(s) == Len(s) > 0 /\ \A i \in 1..Len(s) : s[i] \in Range(DigitChars)

\* str.isalpha: non-empty and every character a letter
isalpha(s) == Len(s) > 0 /\ \A i \in 1..Len(s) : s[i] \in Range(LowerChars) \cup Range(UpperChars)

LowerChar(c) ==
    IF c \in Range(UpperChars)
    THEN LowerChars[CHOOSE i \in 1..Len(UpperChars) : UpperChars[i] = c]
    ELSE c

\* str.lower
lower(s) == [i \in 1..Len(s) |-> LowerChar(s[i])]

DigitVal(c) == (CHOOSE i \in 1..Len(DigitChars) : DigitChars[i] = c) - 1

RECURSIVE ToInt(_)
\* int() of a string of digits
ToInt(s) == IF Len(s) = 0 THEN 0 ELSE 10 * ToInt(SubSeq(s, 1, Len(s) - 1)) + DigitVal(s[Len(s)])

\* the digit character of 0..9
DigitOf(n) == DigitChars[n + 1]

\* "%02d" formatting
Pad2(n) == <<DigitOf((n \div 10) % 10), DigitOf(n % 10)>>

\* "%Y" formatting of a year 1000..9999
Pad4(n) == <<DigitOf((n \div 1000) % 10), DigitOf((n \div 100) % 10),
             DigitOf((n \div 10) % 10), DigitOf(n % 10)>>

(***************************************************************************)
(* datetime.date.                                                          *)
(***************************************************************************)
IsLeap(y) == (y % 4 = 0) /\ ((y % 100 # 0) \/ (y % 400 = 0))

DaysInMonth(y, m) ==
    IF m = 2 THEN (IF IsLeap(y) THEN 29 ELSE 28)
    ELSE IF m \in {4, 6, 9, 11} THEN 30 ELSE 31

\* the check of the date constructor (MINYEAR = 1, MAXYEAR = 9999)
ValidDate(y, m, d) ==
    /\ y \in 1..9999
    /\ m \in 1..12
    /\ d \in 1..DaysInMonth(y, m)

Date(y, m, d) == [year |-> y, month |-> m, day |-> d]

RECURSIVE DaysBeforeMonth(_, _)
DaysBeforeMonth(y, m) == IF m = 1 THEN 0 ELSE DaysBeforeMonth(y, m - 1) + DaysInMonth(y, m - 1)

DaysBeforeYear(y) == (y - 1) * 365 + ((y - 1) \div 4) - ((y - 1) \div 100) + ((y - 1) \div 400)

\* date.toordinal: 0001-01-01 is day 1
toordinal(dt) == DaysBeforeYear(dt.year) + DaysBeforeMonth(dt.year, dt.month) + dt.day

\* date.weekday: Monday is 0, Sunday is 6
weekday(dt) == (toordinal(dt) + 6) % 7

\* (a - b).days
DaysBetween(a, b) == toordinal(a) - toordinal(b)

NextDay(dt) ==
    IF dt.day < DaysInMonth(dt.year, dt.month) THEN Date(dt.year, dt.month, dt.day + 1)
    ELSE IF dt.month < 12 THEN Date(dt.year, dt.month + 1, 1)
    ELSE Date(dt.year + 1, 1, 1)

RECURSIVE AddDays(_, _)
\* date + timedelta(days=n), n >= 0
AddDays(dt, n) == IF n = 0 THEN dt ELSE AddDays(NextDay(dt), n - 1)

\* date.strftime("%d.%m.%Y")
strftime(dt) == Pad2(dt.day) \o <<".">> \o Pad2(dt.month) \o <<".">> \o Pad4(dt.year)

\* positions of the "." characters of s
DotsOf(s) == {i \in 1..Len(s) : s[i] = "."}

\* datetime.strptime(s, "%d.%m.%Y").date(): the directive %d takes one or two
\* digits of 1..31, %m one or two digits of 1..12, %Y four digits; the whole
\* string must be used and the date must exist.
strptime(s) ==
    LET dots == DotsOf(s) IN
    IF Cardinality(dots) # 2 THEN [ok |-> FALSE]
    ELSE
      LET i == CHOOSE k \in dots : \A l \in dots : k <= l
          j == CHOOSE k \in dots : \A l \in dots : k >= l
          ds == SubSeq(s, 1, i - 1)
          ms == SubSeq(s, i + 1, j - 1)
          ys == SubSeq(s, j + 1, Len(s))
      IN  IF /\ isdigit(ds) /\ Len(ds) \in {1, 2} /\ ToInt(ds) \in 1..31
             /\ isdigit(ms) /\ Len(ms) \in {1, 2} /\ ToInt(ms) \in 1..12
             /\ isdigit(ys) /\ Len(ys) = 4
             /\ ValidDate(ToInt(ys), ToInt(ms), ToInt(ds))
          THEN [ok |-> TRUE, value |-> Date(ToInt(ys), ToInt(ms), ToInt(ds))]
          ELSE [ok |-> FALSE]

\* date.replace(year=y): raises ValueError when the day does not exist in y
replace_year(dt, y) ==
    IF ValidDate(y, dt.month, dt.day)
    THEN [ok |-> TRUE, value |-> Date(y, dt.month, dt.day)]
    ELSE [ok |-> FALSE]

(***************************************************************************)
(* Sample texts the user types.                                            *)
(***************************************************************************)
Ann == <<"A", "n", "n">>
Bob == <<"B", "o", "b">>
BadName == <<"R", "2">>
PhoneA == <<"1", "2", "3", "4", "5", "6", "7", "8", "9", "0">>
PhoneB == <<"0", "9", "8", "7", "6", "5", "4", "3", "2", "1">>
BadPhone == <<"1", "2", "3">>
BdayFeb29 == <<"2", "9", ".", "0", "2", ".", "2", "0", "0", "0">>
BdayMar2 == <<"0", "2", ".", "0", "3", ".", "1", "9", "9", "1">>
BdayJan1 == <<"1", ".", "1", ".", "1", "9", "9", "0">>
BadBdayDay == <<"3", "1", ".", "0", "2", ".", "1", "9", "9", "0">>
BadBdayForm == <<"1", "9", "9", "0", "-", "0", "1", "-", "0", "2">>

WordHello == <<"h", "e", "l", "l", "o">>
WordAdd == <<"a", "d", "d">>
WordAddUpper == <<"A", "D", "D">>
WordChange == <<"c", "h", "a", "n", "g", "e">>
WordPhone == <<"p", "h", "o", "n", "e">>
WordAll == <<"a", "l", "l">>
WordAddBirthday == <<"a", "d", "d", "-", "b", "i", "r", "t", "h", "d", "a", "y">>
WordShowBirthday == <<"s", "h", "o", "w", "-", "b", "i", "r", "t", "h", "d", "a", "y">>
WordBirthdays == <<"b", "i", "r", "t", "h", "d", "a", "y", "s">>
WordClose == <<"c", "l", "o", "s", "e">>
WordExit == <<"E", "x", "i", "t">>
WordExitLower == <<"e", "x", "i", "t">>
WordOther == <<"f", "o", "o">>

NameTexts == {Ann, Bob, BadName}
PhoneTexts == {PhoneA, PhoneB, BadPhone}
BirthdayTexts == {BdayFeb29, BdayMar2, BdayJan1, BadBdayDay, BadBdayForm}

\* The token lists user_input.split() can yield here: every command with no
\* argument, with too few arguments and with a full argument list.
Lines ==
    {<<>>}
    \cup {<<w>> : w \in {WordHello, WordAdd, WordChange, WordPhone, WordAll, WordAddBirthday,
                         WordShowBirthday, WordBirthdays, WordClose, WordExit, WordOther}}
    \cup {<<w, n>> : w \in {WordPhone, WordShowBirthday}, n \in {Ann, Bob}}
    \cup {<<WordAdd, Ann>>, <<WordAddBirthday, Ann>>}
    \cup {<<WordAdd, n, p>> : n \in NameTexts, p \in PhoneTexts}
    \cup {<<WordAddUpper, Bob, PhoneA>>, <<WordChange, Ann, PhoneA>>,
          <<WordAddBirthday, BadName, BdayMar2>>}
    \cup {<<WordChange, n, p, q>> : n \in {Ann, Bob}, p \in {PhoneA, PhoneB}, q \in PhoneTexts}
    \cup {<<WordAddBirthday, n, b>> : n \in {Ann, Bob}, b \in BirthdayTexts}

\* The days datetime.now().date() is read on: around the turn of the year and
\* the turn of February, in each year of 2023 .. 2022 + NumYears.
Todays ==
    {Date(y, md[1], md[2]) :
        y \in 2023..(2022 + NumYears),
        md \in {<<1, 1>>, <<2, 23>>, <<2, 24>>, <<3, 3>>, <<12, 25>>, <<12, 30>>}}

(***************************************************************************)
(* Exceptions and results.  An operation yields [ok |-> TRUE, ...] or      *)
(* [ok |-> FALSE, exc, msg, ...] for a raised exception.                   *)
(***************************************************************************)
\* a printed text: a fixed text, or a template with the values filled in
Msg(text) == [text |-> text, body |-> <<>>]

Raise(exc, text) == [ok |-> FALSE, exc |-> exc, msg |-> Msg(text)]

\* the ValueError of "a, b, *_ = args" when args is too short
RaiseUnpack(expected, got, data) ==
    [ok |-> FALSE, exc |-> "ValueError",
     msg |-> [text |-> "not enough values to unpack (expected at least {}, got {})",
              body |-> <<expected, got>>],
     data |-> data]

\* birthday = None
None == Date(0, 0, 0)

(***************************************************************************)
(* Field types.                                                            *)
(***************************************************************************)
\* Name.__init__
Name(value) ==
    IF ~isalpha(value) THEN Raise("ValueError", "Name must contain only letters")
    ELSE [ok |-> TRUE, value |-> value]

\* Phone.__init__
Phone(value) ==
    IF ~isdigit(value) \/ Len(value) # 10
    THEN Raise("ValueError", "Phone number must contain 10 digits")
    ELSE [ok |-> TRUE, value |-> value]

\* Birthday.__init__
Birthday(value) ==
    LET d == strptime(value) IN
    IF d.ok THEN [ok |-> TRUE, value |-> d.value]
    ELSE Raise("ValueError", "Invalid date format. Use DD.MM.YYYY")

(***************************************************************************)
(* Record: [name, phones, birthday].  Operations that mutate the Record    *)
(* yield the Record as it is left, also when they raise.                   *)
(***************************************************************************)
\* Record.__init__
Record(name) ==
    LET n == Name(name) IN
    IF ~n.ok THEN n
    ELSE [ok |-> TRUE, rec |-> [name |-> n.value, phones |-> <<>>, birthday |-> None]]

\* Record.add_phone
add_phone(rec, phone) ==
    LET p == Phone(phone) IN
    IF ~p.ok THEN [ok |-> FALSE, exc |-> p.exc, msg |-> p.msg, rec |-> rec]
    ELSE [ok |-> TRUE, rec |-> [rec EXCEPT !.phones = Append(@, p.value)]]

\* Record.find_phone: the index of the first phone equal to the text, 0 for None
find_phone(rec, phone) ==
    IF \E i \in 1..Len(rec.phones) : rec.phones[i] = phone
    THEN CHOOSE i \in 1..Len(rec.phones) :
            /\ rec.phones[i] = phone
            /\ \A j \in 1..(i - 1) : rec.phones[j] # phone
    ELSE 0

\* list.remove of the element at index i
RemoveAt(s, i) == SubSeq(s, 1, i - 1) \o SubSeq(s, i + 1, Len(s))

\* Record.remove_phone
remove_phone(rec, phone) ==
    LET i == find_phone(rec, phone) IN
    IF i # 0 THEN [ok |-> TRUE, rec |-> [rec EXCEPT !.phones = RemoveAt(@, i)]]
    ELSE [ok |-> FALSE, exc |-> "ValueError", msg |-> Msg("Phone number is not found"), rec |-> rec]

\* edit_phone that overwrites the found phone in place
edit_phone_inplace(rec, old_phone_number, new_phone_number) ==
    LET i == find_phone(rec, old_phone_number)
        p == Phone(new_phone_number)
    IN  IF i = 0
        THEN [ok |-> FALSE, exc |-> "ValueError", msg |-> Msg("Phone number is not found"),
              rec |-> rec]
        ELSE IF ~p.ok THEN [ok |-> FALSE, exc |-> p.exc, msg |-> p.msg, rec |-> rec]
        ELSE [ok |-> TRUE, rec |-> [rec EXCEPT !.phones[i] = p.value]]

\* Record.edit_phone
edit_phone(rec, old_phone_number, new_phone_number) ==
    IF find_phone(rec, old_phone_number) # 0
    THEN LET r == remove_phone(rec, old_phone_number) IN
         IF ~r.ok THEN r ELSE add_phone(r.rec, new_phone_number)
    ELSE [ok |-> FALSE, exc |-> "ValueError", msg |-> Msg("Phone number is not found"), rec |-> rec]

\* Record.add_birthday
add_birthday_rec(rec, birthday) ==
    LET b == Birthday(birthday) IN
    IF ~b.ok THEN [ok |-> FALSE, exc |-> b.exc, msg |-> b.msg, rec |-> rec]
    ELSE [ok |-> TRUE, rec |-> [rec EXCEPT !.birthday = b.value]]

RECURSIVE Join(_, _)
\* sep.join(parts)
Join(parts, sep) ==
    IF Len(parts) = 0 THEN <<>>
    ELSE IF Len(parts) = 1 THEN parts[1]
    ELSE parts[1] \o sep \o Join(Tail(parts), sep)

\* Record.__str__: the name, the phones joined by "; " and the birthday text
RecordStr(rec) ==
    <<rec.name, Join(rec.phones, <<";", " ">>),
      IF rec.birthday # None THEN strftime(rec.birthday)
      ELSE <<"N", "o", "t", " ", "a", "v", "a", "i", "l", "a", "b", "l", "e">> >>

(***************************************************************************)
(* AddressBook: the dict self.data as the sequence of its items            *)
(* [key, rec] in insertion order.                                          *)
(***************************************************************************)
KeyIndex(data, key) ==
    IF \E i \in 1..Len(data) : data[i].key = key
    THEN CHOOSE i \in 1..Len(data) : data[i].key = key
    ELSE 0

\* dict.__setitem__: a present key keeps its place, a new key goes last
SetItem(data, key, rec) ==
    IF KeyIndex(data, key) # 0
    THEN [data EXCEPT ![KeyIndex(data, key)] = [key |-> key, rec |-> rec]]
    ELSE Append(data, [key |-> key, rec |-> rec])

\* add_record that adds an item without looking for the key
add_record_append(data, rec) == Append(data, [key |-> rec.name, rec |-> rec])

\* AddressBook.add_record
add_record(data, rec) == SetItem(data, rec.name, rec)

\* AddressBook.find_record: the index of the Record, 0 for None
find_record(data, name) == KeyIndex(data, name)

\* AddressBook.delete_record
delete_record(data, name) ==
    IF KeyIndex(data, name) # 0
    THEN [ok |-> TRUE, data |-> RemoveAt(data, KeyIndex(data, name))]
    ELSE [ok |-> FALSE, exc |-> "KeyError", msg |-> Msg("Contact not found"), data |-> data]

\* the weekend shift with "> 5" for ">= 5": a Saturday is left as it is
WeekendShiftSundayOnly(bday_this_year) ==
    IF weekday(bday_this_year) > 5
    THEN AddDays(bday_this_year, 7 - weekday(bday_this_year))
    ELSE bday_this_year

\* the weekend shift of get_upcoming_birthdays
WeekendShift(bday_this_year) ==
    IF weekday(bday_this_year) >= 5
    THEN AddDays(bday_this_year, 7 - weekday(bday_this_year))
    ELSE bday_this_year

\* the window test of get_upcoming_birthdays
InWindow(bday_this_year, t) ==
    0 <= DaysBetween(bday_this_year, t) /\ DaysBetween(bday_this_year, t) <= 7

RECURSIVE UpcomingLoop(_, _, _, _)
\* the loop of get_upcoming_birthdays from the i-th Record on
UpcomingLoop(data, t, i, upcoming_birthdays) ==
    IF i > Len(data) THEN [ok |-> TRUE, list |-> upcoming_birthdays]
    ELSE LET record == data[i].rec IN
         IF record.birthday = None THEN UpcomingLoop(data, t, i + 1, upcoming_birthdays)
         ELSE LET b == replace_year(record.birthday, t.year) IN
              IF ~b.ok THEN Raise("ValueError", "day is out of range for month")
              ELSE IF InWindow(b.value, t)
                   THEN UpcomingLoop(data, t, i + 1,
                            Append(upcoming_birthdays,
                                   [name |-> record.name,
                                    birthday |-> strftime(WeekendShift(b.value))]))
                   ELSE UpcomingLoop(data, t, i + 1, upcoming_birthdays)

\* AddressBook.get_upcoming_birthdays, with t the value of datetime.now().date()
get_upcoming_birthdays(data, t) == UpcomingLoop(data, t, 1, <<>>)

\* AddressBook.__str__
BookStr(data) == [i \in 1..Len(data) |-> RecordStr(data[i].rec)]

(***************************************************************************)
(* Command handlers.  The body of a handler yields [ok, ret, data] or      *)
(* [ok, exc, msg, data], with data the book as the handler leaves it; the  *)
(* decorator input_error turns it into [out, data].                        *)
(***************************************************************************)
\* the Record held under index i is the object the handler mutates
StoreRec(data, i, rec) == [data EXCEPT ![i].rec = rec]

Return(text, data) == [ok |-> TRUE, ret |-> Msg(text), data |-> data]

\* input_error.inner
input_error(r) ==
    IF r.ok THEN [out |-> r.ret, data |-> r.data]
    ELSE IF r.exc = "ValueError" THEN [out |-> r.msg, data |-> r.data]
    ELSE IF r.exc = "KeyError" THEN [out |-> Msg("Contact is not found"), data |-> r.data]
    ELSE [out |-> Msg("Enter user name and phone/birthday"), data |-> r.data]

\* "if phone: record.add_phone(phone)" and the return of add_contact
AddContactPhone(data, i, phone, message) ==
    IF Len(phone) > 0
    THEN LET p == add_phone(data[i].rec, phone) IN
         IF p.ok THEN Return(message, StoreRec(data, i, p.rec))
         ELSE [ok |-> FALSE, exc |-> p.exc, msg |-> p.msg, data |-> StoreRec(data, i, p.rec)]
    ELSE Return(message, data)

\* add_contact that builds a new Record also for a name already in the book
add_contact_body_fresh(a, data) ==
    IF Len(a) < 2 THEN RaiseUnpack(2, Len(a), data)
    ELSE LET r == Record(a[1]) IN
         IF ~r.ok THEN [ok |-> FALSE, exc |-> r.exc, msg |-> r.msg, data |-> data]
         ELSE AddContactPhone(add_record(data, r.rec), find_record(add_record(data, r.rec), a[1]),
                              a[2],
                              IF find_record(data, a[1]) = 0 THEN "Contact added."
                              ELSE "Contact updated.")

add_contact_body(a, data) ==
    IF Len(a) < 2 THEN RaiseUnpack(2, Len(a), data)
    ELSE LET name == a[1]
             phone == a[2]
         IN  IF find_record(data, name) = 0
             THEN LET r == Record(name) IN
                  IF ~r.ok THEN [ok |-> FALSE, exc |-> r.exc, msg |-> r.msg, data |-> data]
                  ELSE LET added == add_record(data, r.rec) IN
                       AddContactPhone(added, find_record(added, name), phone, "Contact added.")
             ELSE AddContactPhone(data, find_record(data, name), phone, "Contact updated.")

\* add_contact
add_contact(a, data) == input_error(add_contact_body(a, data))

change_contact_body(a, data) ==
    IF Len(a) < 3 THEN RaiseUnpack(3, Len(a), data)
    ELSE LET i == find_record(data, a[1]) IN
         IF i # 0
         THEN LET e == edit_phone(data[i].rec, a[2], a[3]) IN
              IF e.ok THEN Return("Contact updated.", StoreRec(data, i, e.rec))
              ELSE [ok |-> FALSE, exc |-> e.exc, msg |-> e.msg, data |-> StoreRec(data, i, e.rec)]
         ELSE Return("Contact is not found", data)

\* change_contact
change_contact(a, data) == input_error(change_contact_body(a, data))

phone_contact_body(a, data) ==
    IF Len(a) < 1 THEN [ok |-> FALSE, exc |-> "IndexError", msg |-> Msg(""), data |-> data]
    ELSE LET i == find_record(data, a[1]) IN
         IF i # 0
         THEN [ok |-> TRUE, data |-> data,
               ret |-> [text |-> "Contact {name}: {phones}",
                        body |-> <<a[1], Join(data[i].rec.phones, <<";", " ">>)>>]]
         ELSE Return("Contact is not found", data)

\* phone_contact
phone_contact(a, data) == input_error(phone_contact_body(a, data))

\* show_all_contacts
show_all_contacts(data) ==
    input_error(IF Len(data) > 0
                THEN [ok |-> TRUE, data |-> data, ret |-> [text |-> "{book}", body |-> BookStr(data)]]
                ELSE Return("Phonebook is empty", data))

add_birthday_body(a, data) ==
    IF Len(a) < 2 THEN RaiseUnpack(2, Len(a), data)
    ELSE LET i == find_record(data, a[1]) IN
         IF i # 0
         THEN LET b == add_birthday_rec(data[i].rec, a[2]) IN
              IF b.ok THEN Return("Birthday added.", StoreRec(data, i, b.rec))
              ELSE [ok |-> FALSE, exc |-> b.exc, msg |-> b.msg, data |-> StoreRec(data, i, b.rec)]
         ELSE Return("Contact is not found", data)

\* add_birthday
add_birthday(a, data) == input_error(add_birthday_body(a, data))

show_birthday_body(a, data) ==
    IF Len(a) < 1 THEN [ok |-> FALSE, exc |-> "IndexError", msg |-> Msg(""), data |-> data]
    ELSE LET i == find_record(data, a[1]) IN
         IF i # 0
         THEN [ok |-> TRUE, data |-> data,
               ret |-> [text |-> "Contact {name}: Birthday is {birthday}",
                        body |-> <<a[1],
                                   IF data[i].rec.birthday # None
                                   THEN strftime(data[i].rec.birthday)
                                   ELSE <<"n", "o", "t", " ", "s", "e", "t">> >>]]
         ELSE Return("Contact is not found", data)

\* show_birthday
show_birthday(a, data) == input_error(show_birthday_body(a, data))

\* birthdays, given the outcome u of book.get_upcoming_birthdays()
birthdays(u, data) ==
    input_error(IF ~u.ok THEN [ok |-> FALSE, exc |-> u.exc, msg |-> u.msg, data |-> data]
                ELSE IF Len(u.list) > 0
                THEN [ok |-> TRUE, data |-> data,
                      ret |-> [text |-> "{name}: {birthday}",
                               body |-> [i \in 1..Len(u.list) |->
                                           <<u.list[i].name, u.list[i].birthday>>]]]
                ELSE Return("No upcoming birthdays in the next 7 days.", data))

\* parse_input, on the token list of the line: "cmd, *args = ..." raises
\* ValueError when there is no token
parse_input(line) ==
    IF Len(line) = 0
    THEN [ok |-> FALSE, exc |-> "ValueError",
          msg |-> [text |-> "not enough values to unpack (expected at least {}, got {})",
                   body |-> <<1, 0>>]]
    ELSE [ok |-> TRUE, cmd |-> lower(line[1]), args |-> Tail(line)]

(***************************************************************************)
(* Persistence.  The pickle of a book is a token stream: a header, the     *)
(* number of items, each item as its key, its Name, the number of phones,  *)
(* the phones and the birthday (the token "N", or "D" and the three        *)
(* fields of the date), and the STOP token ".".                            *)
(***************************************************************************)
PickleBirthday(b) == IF b = None THEN <<"N">> ELSE <<"D", b.year, b.month, b.day>>

PickleItem(e) ==
    <<"I", e.key, e.rec.name, Len(e.rec.phones)>> \o e.rec.phones \o PickleBirthday(e.rec.birthday)

RECURSIVE PickleItems(_)
PickleItems(data) == IF Len(data) = 0 THEN <<>> ELSE PickleItem(Head(data)) \o PickleItems(Tail(data))

\* pickle.dump
pickle_dump(data) == <<"AddressBook", Len(data)>> \o PickleItems(data) \o <<".">>

\* reads one item at position pos: [ok, item, next]
UnpickleItem(bytes, pos) ==
    IF pos + 3 > Len(bytes) THEN [ok |-> FALSE]
    ELSE LET n == bytes[pos + 3]
             bpos == pos + 4 + n
         IN  IF bpos > Len(bytes) THEN [ok |-> FALSE]
             ELSE IF bytes[bpos] = "N"
             THEN [ok |-> TRUE, next |-> bpos + 1,
                   item |-> [key |-> bytes[pos + 1],
                             rec |-> [name |-> bytes[pos + 2],
                                      phones |-> SubSeq(bytes, pos + 4, pos + 3 + n),
                                      birthday |-> None]]]
             ELSE IF bpos + 3 > Len(bytes) THEN [ok |-> FALSE]
             ELSE [ok |-> TRUE, next |-> bpos + 4,
                   item |-> [key |-> bytes[pos + 1],
                             rec |-> [name |-> bytes[pos + 2],
                                      phones |-> SubSeq(bytes, pos + 4, pos + 3 + n),
                                      birthday |-> Date(bytes[bpos + 1], bytes[bpos + 2],
                                                        bytes[bpos + 3])]]]

RECURSIVE UnpickleItems(_, _, _, _)
UnpickleItems(bytes, pos, n, data) ==
    IF n = 0
    THEN IF pos = Len(bytes) /\ bytes[pos] = "." THEN [ok |-> TRUE, data |-> data]
         ELSE [ok |-> FALSE]
    ELSE LET r == UnpickleItem(bytes, pos) IN
         IF ~r.ok THEN [ok |-> FALSE]
         ELSE UnpickleItems(bytes, r.next, n - 1, Append(data, r.item))

\* pickle.load: [ok, data], not ok when the stream ends before its STOP
pickle_load(bytes) ==
    IF Len(bytes) < 2 THEN [ok |-> FALSE]
    ELSE UnpickleItems(bytes, 3, bytes[2], <<>>)

NoFile == [exists |-> FALSE, bytes |-> <<>>]

\* save_data: open(filename, "wb") and pickle.dump
save_data(data) == [exists |-> TRUE, bytes |-> pickle_dump(data)]

\* load_data that starts from a fresh book whatever the file holds
load_data_fresh(f) == [ok |-> TRUE, data |-> <<>>]

\* load_data: the book, or the exception that leaves it
load_data(f) ==
    IF ~f.exists THEN [ok |-> TRUE, data |-> <<>>]
    ELSE LET r == pickle_load(f.bytes) IN
         IF r.ok THEN [ok |-> TRUE, data |-> r.data]
         ELSE IF Len(f.bytes) = 0
         THEN [ok |-> FALSE, exc |-> "EOFError", msg |-> Msg("Ran out of input")]
         ELSE [ok |-> FALSE, exc |-> "UnpicklingError", msg |-> Msg("pickle data was truncated")]

(***************************************************************************)
(* main: the state machine.                                                *)
(*   pc        "init" before the first process, "loop" while a process     *)
(*             waits for a line, "done" after close/exit, "crashed" after  *)
(*             an exception left main, "killed" after the process was      *)
(*             stopped inside save_data                                    *)
(*   book      book.data of the process (of the last one, when none runs)  *)
(*   file      addressbook.pkl                                             *)
(*   out       the last text printed (the exception's text after a crash)  *)
(*   command, args   what parse_input returned for the last line           *)
(*   today, upcoming   the clock value read by the last command and what   *)
(*             get_upcoming_birthdays returned for it (None when the last  *)
(*             command did not read the clock)                             *)
(*   sessions, steps   processes started and lines read so far             *)
(***************************************************************************)
NoUpcoming == [ok |-> TRUE, list |-> <<>>]

Init ==
    /\ pc = "init"
    /\ book = <<>>
    /\ file = NoFile
    /\ out = Msg("")
    /\ command = <<>>
    /\ args = <<>>
    /\ today = None
    /\ upcoming = NoUpcoming
    /\ sessions = 0
    /\ steps = 0

NoClock == today' = None /\ upcoming' = NoUpcoming

\* a process starts: book = load_data(), then the greeting
Start ==
    /\ pc \in {"init", "done", "crashed", "killed"}
    /\ sessions < MaxSessions
    /\ sessions' = sessions + 1
    /\ LET l == load_data(file) IN
       IF l.ok
       THEN /\ pc' = "loop"
            /\ book' = l.data
            /\ out' = Msg("Welcome to the assistant bot!")
       ELSE /\ pc' = "crashed"
            /\ book' = <<>>
            /\ out' = l.msg
    /\ command' = <<>>
    /\ args' = <<>>
    /\ NoClock
    /\ UNCHANGED <<file, steps>>

\* the lines whose command word, lowered by parse_input, is in words
LinesOf(words) == {line \in Lines : parse_input(line).ok /\ parse_input(line).cmd \in words}

Known ==
    {WordClose, WordExitLower, WordHello, WordAdd, WordChange, WordPhone, WordAll,
     WordAddBirthday, WordShowBirthday, WordBirthdays}

EmptyLines == {line \in Lines : ~parse_input(line).ok}
CloseLines == LinesOf({WordClose, WordExitLower})
HelloLines == LinesOf({WordHello})
AddLines == LinesOf({WordAdd})
ChangeLines == LinesOf({WordChange})
PhoneLines == LinesOf({WordPhone})
AllLines == LinesOf({WordAll})
AddBirthdayLines == LinesOf({WordAddBirthday})
ShowBirthdayLines == LinesOf({WordShowBirthday})
BirthdaysLines == LinesOf({WordBirthdays})
InvalidLines == {line \in Lines : parse_input(line).ok /\ parse_input(line).cmd \notin Known}

\* a line is read while the loop runs
Reads ==
    /\ pc = "loop"
    /\ steps < MaxSteps
    /\ steps' = steps + 1
    /\ UNCHANGED sessions

\* command, args = parse_input(user_input)
Parsed(line) ==
    /\ Reads
    /\ command' = parse_input(line).cmd
    /\ args' = parse_input(line).args

\* the handler's text is printed and the loop goes on
Prints(r) ==
    /\ pc' = "loop"
    /\ book' = r.data
    /\ out' = r.out
    /\ UNCHANGED file

PhonesBounded(data) == \A i \in 1..Len(data) : Len(data[i].rec.phones) <= MaxPhones

\* input() returned a line without a token: parse_input raises out of main
Empty(line) ==
    /\ Reads
    /\ pc' = "crashed"
    /\ out' = parse_input(line).msg
    /\ NoClock
    /\ UNCHANGED <<book, file, command, args>>

Close(line) ==
    /\ Parsed(line)
    /\ file' = save_data(book)
    /\ out' = Msg("Good bye!")
    /\ pc' = "done"
    /\ NoClock
    /\ UNCHANGED book

Hello(line) ==
    /\ Parsed(line)
    /\ Prints([out |-> Msg("How can I help you?"), data |-> book])
    /\ NoClock

Add(line) ==
    LET r == add_contact(parse_input(line).args, book) IN
    /\ Parsed(line)
    /\ PhonesBounded(r.data)
    /\ Prints(r)
    /\ NoClock

Change(line) ==
    LET r == change_contact(parse_input(line).args, book) IN
    /\ Parsed(line)
    /\ Prints(r)
    /\ NoClock

PhoneOf(line) ==
    /\ Parsed(line)
    /\ Prints(phone_contact(parse_input(line).args, book))
    /\ NoClock

All(line) ==
    /\ Parsed(line)
    /\ Prints(show_all_contacts(book))
    /\ NoClock

AddBirthday(line) ==
    LET r == add_birthday(parse_input(line).args, book) IN
    /\ Parsed(line)
    /\ Prints(r)
    /\ NoClock

ShowBirthday(line) ==
    /\ Parsed(line)
    /\ Prints(show_birthday(parse_input(line).args, book))
    /\ NoClock

Birthdays(line, t) ==
    LET u == get_upcoming_birthdays(book, t) IN
    /\ Parsed(line)
    /\ today' = t
    /\ upcoming' = u
    /\ Prints(birthdays(u, book))

Invalid(line) ==
    /\ Parsed(line)
    /\ Prints([out |-> Msg("Invalid command"), data |-> book])
    /\ NoClock

EmptyLine == \E line \in EmptyLines : Empty(line)
CmdClose == \E line \in CloseLines : Close(line)
CmdHello == \E line \in HelloLines : Hello(line)
CmdAdd == \E line \in AddLines : Add(line)
CmdChange == \E line \in ChangeLines : Change(line)
CmdPhone == \E line \in PhoneLines : PhoneOf(line)
CmdAll == \E line \in AllLines : All(line)
CmdAddBirthday == \E line \in AddBirthdayLines : AddBirthday(line)
CmdShowBirthday == \E line \in ShowBirthdayLines : ShowBirthday(line)
CmdBirthdays == \E line \in BirthdaysLines, t \in Todays : Birthdays(line, t)
CmdInvalid == \E line \in InvalidLines : Invalid(line)

Next ==
    \/ Start
    \/ EmptyLine
    \/ CmdClose
    \/ CmdHello
    \/ CmdAdd
    \/ CmdChange
    \/ CmdPhone
    \/ CmdAll
    \/ CmdAddBirthday
    \/ CmdShowBirthday
    \/ CmdBirthdays
    \/ CmdInvalid

Spec == Init /\ [][Next]_vars

(***************************************************************************)
(* The process is stopped inside save_data: open(filename, "wb") has       *)
(* truncated the file and pickle.dump has written only the first k tokens. *)
(***************************************************************************)
Interrupted(line, k) ==
    /\ Parsed(line)
    /\ file' = [exists |-> TRUE, bytes |-> SubSeq(pickle_dump(book), 1, k)]
    /\ pc' = "killed"
    /\ NoClock
    /\ UNCHANGED <<book, out>>

CloseInterrupted ==
    \E line \in CloseLines : \E k \in 0..(Len(pickle_dump(book)) - 1) : Interrupted(line, k)

NextInterrupt == Next \/ CloseInterrupted

SpecInterrupt == Init /\ [][NextInterrupt]_vars

(***************************************************************************)
(* The AddressBook used as a library: a caller holding the book calls      *)
(* add_record with a Record it built, or delete_record.                    *)
(***************************************************************************)
\* the Records a caller builds with Record(name) and add_phone
BuiltRecords ==
    {Record(n).rec : n \in {m \in NameTexts : Record(m).ok}}
    \cup {add_phone(Record(n).rec, ph).rec :
            n \in {m \in NameTexts : Record(m).ok},
            ph \in {q \in PhoneTexts : Phone(q).ok}}

ApiAddRecord ==
    \E rec \in BuiltRecords :
        /\ Reads
        /\ book' = add_record(book, rec)
        /\ UNCHANGED <<pc, file, out, command, args, today, upcoming>>

ApiDeleteRecord ==
    \E name \in NameTexts :
        LET d == delete_record(book, name) IN
        /\ Reads
        /\ book' = d.data
        /\ out' = IF d.ok THEN out ELSE d.msg
        /\ UNCHANGED <<pc, file, command, args, today, upcoming>>

NextApi == Next \/ ApiAddRecord \/ ApiDeleteRecord

SpecApi == Init /\ [][NextApi]_vars

(***************************************************************************)
(* Properties.                                                             *)
(***************************************************************************)
\* the last command was "birthdays": today and upcoming are its clock value
\* and the outcome of its get_upcoming_birthdays call on book
BirthdaysRan == today # None

\* the birthday of rec has an occurrence in year y
HasOccurrence(rec, y) == rec.birthday # None /\ ValidDate(y, rec.birthday.month, rec.birthday.day)

Occurrence(rec, y) == Date(y, rec.birthday.month, rec.birthday.day)

\* days from t to the occurrence of rec's birthday in year y
DaysAhead(rec, y, t) == toordinal(Occurrence(rec, y)) - toordinal(t)

\* rec has a birthday whose occurrence in t's year is 0..7 days after t
DueThisYear(rec, t) == HasOccurrence(rec, t.year) /\ DaysAhead(rec, t.year, t) \in 0..7

\* the indices of the Records of data that are due, in the book's order
DueIndices(data, t) == {i \in 1..Len(data) : DueThisYear(data[i].rec, t)}

\* the k-th smallest element of a set of numbers
RECURSIVE Kth(_, _)
Kth(S, k) ==
    LET m == CHOOSE x \in S : \A y \in S : x <= y IN
    IF k = 1 THEN m ELSE Kth(S \ {m}, k - 1)

\* the names of the due Records, in insertion order
DueNames(data, t) ==
    [k \in 1..Cardinality(DueIndices(data, t)) |-> data[Kth(DueIndices(data, t), k)].rec.name]

ListedNames(u) == [k \in 1..Len(u.list) |-> u.list[k].name]

\* C1: get_upcoming_birthdays returns exactly one entry for each Record whose
\* birthday's occurrence in the current year is 0..7 days after today, none
\* for any other Record, in the book's insertion order.
C1_UpcomingIsTheDueRecords ==
    BirthdaysRan => (upcoming.ok /\ ListedNames(upcoming) = DueNames(book, today))

\* the Record of data stored under name
RecordOf(data, name) == data[CHOOSE i \in 1..Len(data) : data[i].key = name].rec

\* the date an entry reports, read back from its text
Reported(entry) == strptime(entry.birthday).value

\* the first Monday after day number n
NextMonday(n) == CHOOSE m \in (n + 1)..(n + 7) : (m + 6) % 7 = 0

\* C2: every reported date is the current-year occurrence when that is a
\* Monday to Friday and the first Monday after it when it is a Saturday or
\* Sunday, so no reported date is on a weekend; the Records listed are those
\* due by the unshifted occurrence, and a Saturday occurrence 7 days ahead is
\* listed with the date 9 days ahead.
C2_WeekendShift ==
    (BirthdaysRan /\ upcoming.ok) =>
        /\ ListedNames(upcoming) = DueNames(book, today)
        /\ \A k \in 1..Len(upcoming.list) :
              LET entry == upcoming.list[k]
                  occ == Occurrence(RecordOf(book, entry.name), today.year)
              IN  /\ strptime(entry.birthday).ok
                  /\ weekday(Reported(entry)) \in 0..4
                  /\ weekday(occ) \in 0..4 => Reported(entry) = occ
                  /\ weekday(occ) \in 5..6 =>
                        toordinal(Reported(entry)) = NextMonday(toordinal(occ))
        /\ \A i \in 1..Len(book) :
              (/\ HasOccurrence(book[i].rec, today.year)
               /\ DaysAhead(book[i].rec, today.year, today) = 7
               /\ weekday(Occurrence(book[i].rec, today.year)) = 5)
              => \E k \in 1..Len(upcoming.list) :
                    /\ upcoming.list[k].name = book[i].rec.name
                    /\ toordinal(Reported(upcoming.list[k])) = toordinal(today) + 9

\* a Saturday occurrence 7 days ahead was listed, with the Monday 9 days ahead
C2_Witness ==
    /\ BirthdaysRan
    /\ upcoming.ok
    /\ \E k \in 1..Len(upcoming.list) :
          LET rec == RecordOf(book, upcoming.list[k].name) IN
          /\ DaysAhead(rec, today.year, today) = 7
          /\ weekday(Occurrence(rec, today.year)) = 5
          /\ toordinal(Reported(upcoming.list[k])) = toordinal(today) + 9

\* the next anniversary of rec's birthday on or after t is 0..7 days after t
DueRolling(rec, t) ==
    \E y \in {t.year, t.year + 1} : HasOccurrence(rec, y) /\ DaysAhead(rec, y, t) \in 0..7

\* C3: the window is rolling: every contact whose next anniversary is 0..7
\* days after today is listed, also across the turn of the year.
C3_RollingWindow ==
    (BirthdaysRan /\ upcoming.ok) =>
        \A i \in 1..Len(book) :
            DueRolling(book[i].rec, today) =>
                \E k \in 1..Len(upcoming.list) : upcoming.list[k].name = book[i].rec.name

\* C4: every line is answered and the loop goes on; the session ends only
\* through close or exit.
C4_EveryLineAnswered ==
    [][(pc = "loop" /\ pc' # "loop") => (pc' = "done" /\ out' = Msg("Good bye!"))]_vars

Count(s, x) == Cardinality({i \in 1..Len(s) : s[i] = x})

Keys(data) == {data[i].key : i \in 1..Len(data)}

\* the step handles the line "change name old new ..." for a name in the book
ChangeStep ==
    /\ pc = "loop" /\ pc' = "loop"
    /\ steps' = steps + 1
    /\ command' = WordChange
    /\ Len(args') >= 3
    /\ args'[1] \in Keys(book)

\* old is among the Record's phones and new is a valid phone
EditCase ==
    /\ ChangeStep
    /\ Count(RecordOf(book, args'[1]).phones, args'[2]) > 0
    /\ isdigit(args'[3]) /\ Len(args'[3]) = 10

\* old is not among the Record's phones
EditMissCase ==
    /\ ChangeStep
    /\ Count(RecordOf(book, args'[1]).phones, args'[2]) = 0

EditMissFails == out' = Msg("Phone number is not found") /\ book' = book

\* C5 as stated: after edit_phone(old, new), old present and new valid (and
\* another number than old), the phones contain new and do not contain old,
\* whatever the phone list; with old absent it fails "Phone number is not found".
C5_EditRemovesOld ==
    [][/\ (EditCase /\ args'[2] # args'[3]) =>
            /\ Count(RecordOf(book', args'[1]).phones, args'[3]) > 0
            /\ Count(RecordOf(book', args'[1]).phones, args'[2]) = 0
       /\ EditMissCase => EditMissFails]_vars

\* C5 amended: edit_phone(old, new), old present and new valid, removes the
\* first occurrence of old and appends new: the phones contain new, and one
\* occurrence of old fewer than before (none when old occurred once and new
\* is another number); with old absent it fails "Phone number is not found"
\* and changes nothing.
C5_EditReplacesFirstOld ==
    [][/\ EditCase =>
            LET before == RecordOf(book, args'[1]).phones
                after == RecordOf(book', args'[1]).phones
                old == args'[2]
                new == args'[3]
            IN  /\ out' = Msg("Contact updated.")
                /\ Len(after) = Len(before)
                /\ after[Len(after)] = new
                /\ \E i \in 1..Len(before) :
                      /\ before[i] = old
                      /\ \A j \in 1..(i - 1) : before[j] # old
                      /\ \A j \in 1..(i - 1) : after[j] = before[j]
                      /\ \A j \in i..(Len(before) - 1) : after[j] = before[j + 1]
                /\ old # new => Count(after, old) = Count(before, old) - 1
       /\ EditMissCase => EditMissFails]_vars

\* "change" was answered "Contact updated." on a Record holding the same
\* number twice
C5_Witness ==
    /\ command = WordChange
    /\ out = Msg("Contact updated.")
    /\ \E i \in 1..Len(book) : book[i].rec.phones = <<PhoneA, PhoneA>>

\* the step handles the line "add name phone ..." with a valid name and phone
AddCase ==
    /\ pc = "loop" /\ pc' = "loop"
    /\ steps' = steps + 1
    /\ command' = WordAdd
    /\ Len(args') >= 2
    /\ isalpha(args'[1])
    /\ isdigit(args'[2]) /\ Len(args'[2]) = 10

\* C6: add with a valid name and phone inserts a Record with phones [phone]
\* and answers "Contact added." when the name is new, and otherwise keeps
\* the Record, its earlier phones and birthday, appends phone and answers
\* "Contact updated."; find_record(name) then has phone, and every other
\* Record is unchanged.
C6_AddCreatesOrUpdates ==
    [][AddCase =>
          LET name == args'[1]
              phone == args'[2]
          IN  /\ name \notin Keys(book) =>
                    /\ book' = Append(book, [key |-> name,
                                             rec |-> [name |-> name, phones |-> <<phone>>,
                                                      birthday |-> None]])
                    /\ out' = Msg("Contact added.")
              /\ name \in Keys(book) =>
                    /\ Len(book') = Len(book)
                    /\ \A i \in 1..Len(book) :
                          IF book[i].key = name
                          THEN /\ book'[i].key = name
                               /\ book'[i].rec.name = book[i].rec.name
                               /\ book'[i].rec.phones = Append(book[i].rec.phones, phone)
                               /\ book'[i].rec.birthday = book[i].rec.birthday
                          ELSE book'[i] = book[i]
                    /\ out' = Msg("Contact updated.")
              /\ find_record(book', name) # 0
              /\ Count(book'[find_record(book', name)].rec.phones, phone) > 0]_vars

\* "add" was answered "Contact updated." on a Record that has a birthday and
\* an earlier phone, next to another Record
C6_Witness ==
    /\ command = WordAdd
    /\ out = Msg("Contact updated.")
    /\ \E i \in 1..Len(book) :
          /\ Len(book[i].rec.phones) = 2
          /\ book[i].rec.birthday # None

\* C7: the book the next session loads after close or exit is the book in
\* memory at that close or exit: the same names in the same order, each with
\* the same phones and birthday.
C7_RoundTrip ==
    [][(pc = "done" /\ pc' # "done") => (pc' = "loop" /\ book' = book)]_vars

\* a second session has loaded a book with a phone and a birthday in it
C7_Witness ==
    /\ pc = "loop"
    /\ sessions = 2
    /\ out = Msg("Welcome to the assistant bot!")
    /\ \E i \in 1..Len(book) :
          /\ Len(book[i].rec.phones) > 0
          /\ book[i].rec.birthday # None

\* C8: at session start, load yields a fresh empty book whenever the file is
\* absent or reading it fails; the session starts.
C8_LoadFailureStartsEmpty ==
    [][(pc # "loop" /\ sessions' # sessions /\ (~file.exists \/ ~pickle_load(file.bytes).ok))
          => (pc' = "loop" /\ book' = <<>>)]_vars

\* C9: every key maps to a Record whose name is that key, keys are unique,
\* and no Record is stored under two keys.
C9_KeysAreNames ==
    /\ \A i \in 1..Len(book) : book[i].key = book[i].rec.name
    /\ \A i, j \in 1..Len(book) : book[i].key = book[j].key => i = j
    /\ \A i, j \in 1..Len(book) : book[i].rec.name = book[j].rec.name => i = j

\* add_record has replaced the Record of a contact added with a phone, next
\* to a second Record
C9_Witness ==
    /\ out = Msg("Contact added.")
    /\ Len(book) = 2
    /\ \A i \in 1..Len(book) : book[i].rec.phones = <<>>

ErrorTexts ==
    {"Name must contain only letters", "Phone number must contain 10 digits",
     "Invalid date format. Use DD.MM.YYYY", "Phone number is not found",
     "Contact is not found", "Enter user name and phone/birthday",
     "not enough values to unpack (expected at least {}, got {})",
     "day is out of range for month", "Invalid command"}

\* C10: a command answered with an error message leaves the book unchanged.
C10_ErrorLeavesBookUnchanged ==
    [][(pc = "loop" /\ pc' = "loop" /\ out'.text \in ErrorTexts) => book' = book]_vars

====
